---- MODULE Spec2Model ----
(***************************************************************************)
(* Model of discipline.c: the two extension methods makedict and factorize *)
(* written in the "do once / break / release at the end" discipline.       *)
(*                                                                         *)
(* One behaviour is one call.  Every statement of the C functions that     *)
(* calls the Python runtime, tests a condition or changes an owning        *)
(* variable is one action; pc is the position in the function.  The Python *)
(* runtime is modelled by its documented contract: a call that returns a   *)
(* new reference may instead fail (returning NULL with the error indicator *)
(* set), PyTuple_SET_ITEM steals a reference, PyDict_SetItem takes its own *)
(* references, and _PyTuple_Resize on failure destroys the tuple it was    *)
(* given and stores NULL through the pointer.                              *)
(*                                                                         *)
(* heap is the sequence of objects whose reference counts the calls can    *)
(* change: the three argument objects KeyA, KeyB and ExceptMe (held by the *)
(* caller), followed by every object the call creates.  A handle is an     *)
(* index into heap; NULL is 0.                                             *)
(***************************************************************************)
EXTENDS Integers, Sequences, FiniteSets, TLC

(* ---------------------------------------------------------------- bounds *)
MaxItems == 2          \* longest outer tuple passed to makedict
MaxN == 2050           \* largest integer passed to factorize
W == 11                \* width in bits of uint64_t in the model (64 in the code)
MaxStep == 2           \* allocation steps 1..MaxStep are tried beside the code's

(* ------------------------------------------------------------- constants *)
NULL == 0
allocation_step_code == 10
KeyA == 1
KeyB == 2
ExceptMe_type == 3

Modulus == 2 ^ W
AllocationSteps == (1 .. MaxStep) \cup {allocation_step_code}

(* ------------------------------------------------------------ the errors *)
NoError == [type |-> "none", msg |-> ""]
Err(t, m) == [type |-> t, msg |-> m]
\* the errors the runtime raises by itself; msg names the failing call
HostErrors ==
    { Err("TypeError", "PyArg_ParseTuple"), Err("MemoryError", "PyDict_New"),
      Err("SystemError", "PyTuple_GetItem"), Err("MemoryError", "PyDict_SetItem"),
      Err("TypeError", "PyLong_AsUnsignedLongLong"),
      Err("OverflowError", "PyLong_AsUnsignedLongLong"),
      Err("MemoryError", "PyTuple_New"),
      Err("MemoryError", "PyLong_FromUnsignedLongLong"),
      Err("MemoryError", "_PyTuple_Resize") }

(* -------------------------------------------------------------- the heap *)
Obj(kind, slots, val) == [kind |-> kind, rc |-> 1, slots |-> slots, val |-> val]
InitialHeap ==
    << Obj("object", <<>>, 0), Obj("object", <<>>, 0), Obj("type", <<>>, 0) >>
NullSlots(k) == [j \in 1 .. k |-> NULL]

RECURSIVE Py_DECREF(_, _)
RECURSIVE ReleaseAll(_, _)
\* Py_DECREF: drop one reference; the object whose count reaches 0 is
\* deallocated, which drops the references it holds.  A count below 0 records
\* a release of an object that was already dead.
Py_DECREF(hp, h) ==
    LET hp1 == [hp EXCEPT ![h].rc = @ - 1]
    IN  IF hp1[h].rc = 0 THEN ReleaseAll(hp1, hp1[h].slots) ELSE hp1
ReleaseAll(hp, s) ==
    IF s = <<>> THEN hp
    ELSE ReleaseAll(IF Head(s) = NULL THEN hp ELSE Py_DECREF(hp, Head(s)), Tail(s))
Py_XDECREF(hp, h) == IF h = NULL THEN hp ELSE Py_DECREF(hp, h)
Py_INCREF(hp, h) == [hp EXCEPT ![h].rc = @ + 1]

\* a new object with one reference, owned by whoever receives the handle
NewHandle(hp) == Len(hp) + 1
PyTuple_New(hp, size) == Append(hp, Obj("tuple", NullSlots(size), 0))
PyDict_New(hp) == Append(hp, Obj("dict", <<>>, 0))
PyLong_FromUnsignedLongLong(hp, v) == Append(hp, Obj("int", <<>>, v))
\* PyTuple_SET_ITEM steals the reference to item
PyTuple_SET_ITEM(hp, t, pos, item) == [hp EXCEPT ![t].slots[pos + 1] = item]

\* A dict keeps its entries in slots as <<key1, value1, key2, value2, ...>>.
DictKeyPos(hp, d, key) ==
    { j \in 1 .. Len(hp[d].slots) : j % 2 = 1 /\ hp[d].slots[j] = key }
\* PyDict_SetItem: a new key is appended with a reference to key and to value;
\* an existing key keeps its position and its key object, takes a reference
\* to the new value and drops the one to the old value.
PyDict_SetItem(hp, d, key, value) ==
    IF DictKeyPos(hp, d, key) = {}
    THEN [Py_INCREF(Py_INCREF(hp, key), value)
             EXCEPT ![d].slots = Append(Append(@, key), value)]
    ELSE LET j == CHOOSE p \in DictKeyPos(hp, d, key) : TRUE
             old == hp[d].slots[j + 1]
         IN  Py_DECREF([Py_INCREF(hp, value) EXCEPT ![d].slots[j + 1] = value], old)

\* _PyTuple_Resize, success: the same tuple with newsize slots; the items
\* beyond newsize are released, the slots added are NULL.
TupleResized(hp, t, newsize) ==
    LET old == hp[t].slots
        cut == IF newsize < Len(old) THEN SubSeq(old, newsize + 1, Len(old)) ELSE <<>>
        hp1 == [hp EXCEPT ![t].slots =
                   [j \in 1 .. newsize |-> IF j <= Len(old) THEN old[j] ELSE NULL]]
    IN  ReleaseAll(hp1, cut)
\* _PyTuple_Resize, failure: the tuple is destroyed (the caller's pointer is
\* set to NULL by the action that uses this)
TupleResizeFailed(hp, t) == Py_DECREF(hp, t)

(* ------------------------------------------------------------ the inputs *)
Value(kind, elts, v) == [kind |-> kind, elts |-> elts, v |-> v]
PyTuple_Check(x) == x.kind = "tuple"
PyTuple_Size(x) == Len(x.elts)
PyTuple_GetItem(x, pos) == x.elts[pos + 1]

ArgObjects == {KeyA, KeyB, ExceptMe_type}
NonTuple == Value("object", <<>>, 0)
Messages == { Value("str", <<>>, 0), Value("str", <<>>, 1) }
\* the elements of the outer tuple: a non-tuple, tuples of the wrong size,
\* and every pair over the argument objects
Pairs == { Value("tuple", <<f, s>>, 0) : f \in ArgObjects, s \in ArgObjects }
MisShaped ==
    { NonTuple, Value("tuple", <<>>, 0), Value("tuple", <<ExceptMe_type>>, 0),
      Value("tuple", <<KeyA, ExceptMe_type, KeyB>>, 0) }
Elements == Pairs \cup MisShaped
RECURSIVE SeqsUpTo(_, _)
SeqsUpTo(S, k) ==
    IF k = 0 THEN {<<>>}
    ELSE LET shorter == SeqsUpTo(S, k - 1)
         IN  shorter \cup { Append(s, e) : s \in { t \in shorter : Len(t) = k - 1 }, e \in S }
ItemsValues == {NonTuple} \cup { Value("tuple", s, 0) : s \in SeqsUpTo(Elements, MaxItems) }
\* argument tuples of makedict: (items, msg), and three that do not parse as "Os"
MakedictArgs ==
    { <<it, m>> : it \in ItemsValues, m \in Messages }
    \cup { <<>>, <<Value("tuple", <<>>, 0)>>, <<Value("tuple", <<>>, 0), NonTuple>> }
\* argument tuples of factorize: (nobj), and one that does not parse as "O"
IntValues == { Value("int", <<>>, v) : v \in -1 .. MaxN }
FactorizeArgs == { <<x>> : x \in IntValues \cup Messages } \cup { <<>> }

(* ------------------------------------------------------------- the state *)
VARIABLES
    pc,              \* position in the function
    op,              \* the method called: "none", "makedict", "factorize"
    args,            \* the argument tuple of the call
    err,             \* the error indicator (PyErr_Occurred)
    heap,            \* the reference-counted objects
    stdout,          \* the lines written to stdout
    result, tempresult,
    items, msg, nr_items, i, item, first, second,
    nobj, n, nr_allocated, nr_used, allocation_step, step, factor, power,
    factorelt, factorobj, powerobj

common == <<op, args, allocation_step>>
mdlocals == <<items, msg, nr_items, i, item, first, second>>
fzlocals == <<nobj, n, nr_allocated, nr_used, step, factor, power,
              factorelt, factorobj, powerobj>>
vars == <<pc, op, args, err, heap, stdout, result, tempresult,
          items, msg, nr_items, i, item, first, second,
          nobj, n, nr_allocated, nr_used, allocation_step, step, factor, power,
          factorelt, factorobj, powerobj>>

\* a local that has not been assigned yet holds this
Unset == Value("unset", <<>>, 0)

Init ==
    /\ pc = "idle" /\ op = "none" /\ args = <<>>
    /\ err = NoError /\ heap = InitialHeap /\ stdout = <<>>
    /\ result = NULL /\ tempresult = NULL
    /\ items = Unset /\ msg = Unset /\ nr_items = 0 /\ i = 0
    /\ item = Unset /\ first = NULL /\ second = NULL
    /\ nobj = Unset /\ n = 0 /\ nr_allocated = 0 /\ nr_used = 0
    /\ allocation_step = 0
    /\ step = 0 /\ factor = 0 /\ power = 0
    /\ factorelt = NULL /\ factorobj = NULL /\ powerobj = NULL

(* -------------------------------------------------------------- makedict *)
\* the interpreter calls discipline_makedict(self, args)
CallMakedict ==
    /\ pc = "idle"
    /\ \E a \in MakedictArgs : args' = a
    /\ op' = "makedict"
    /\ pc' = "md_parse"
    /\ UNCHANGED <<err, heap, stdout, result, tempresult, allocation_step>>
    /\ UNCHANGED mdlocals /\ UNCHANGED fzlocals

\* PyArg_ParseTuple(args, "Os", &items, &msg)
ParsesAsOs(a) == Len(a) = 2 /\ a[2].kind = "str"
MdParse ==
    /\ pc = "md_parse"
    /\ IF ParsesAsOs(args)
       THEN /\ items' = args[1] /\ msg' = args[2]
            /\ pc' = "md_print"
            /\ UNCHANGED err
       ELSE /\ err' = Err("TypeError", "PyArg_ParseTuple")
            /\ pc' = "md_release"
            /\ UNCHANGED <<items, msg>>
    /\ UNCHANGED <<heap, stdout, result, tempresult, nr_items, i, item, first, second>>
    /\ UNCHANGED common /\ UNCHANGED fzlocals

\* mutant: the fprintf of line 69 left out
MdPrint_Silent ==
    /\ pc = "md_print"
    /\ pc' = "md_check"
    /\ UNCHANGED <<err, heap, stdout, result, tempresult>>
    /\ UNCHANGED common /\ UNCHANGED mdlocals /\ UNCHANGED fzlocals

\* fprintf(stdout, "makedict says: ...", msg)
MdPrint ==
    /\ pc = "md_print"
    /\ stdout' = Append(stdout, msg)
    /\ pc' = "md_check"
    /\ UNCHANGED <<err, heap, result, tempresult>>
    /\ UNCHANGED common /\ UNCHANGED mdlocals /\ UNCHANGED fzlocals

\* if (not PyTuple_Check(items)) ... ; nr_items = PyTuple_Size(items)
MdCheckTuple ==
    /\ pc = "md_check"
    /\ IF PyTuple_Check(items)
       THEN /\ nr_items' = PyTuple_Size(items)
            /\ pc' = "md_new"
            /\ UNCHANGED err
       ELSE /\ err' = Err("TypeError", "expecting a tuple")
            /\ pc' = "md_release"
            /\ UNCHANGED nr_items
    /\ UNCHANGED <<heap, stdout, result, tempresult, items, msg, i, item, first, second>>
    /\ UNCHANGED common /\ UNCHANGED fzlocals

\* tempresult = PyDict_New(); for (ssize_t i = 0;;)
MdNewDict ==
    /\ pc = "md_new"
    /\ \/ /\ heap' = PyDict_New(heap)
          /\ tempresult' = NewHandle(heap)
          /\ i' = 0
          /\ pc' = "md_loop"
          /\ UNCHANGED err
       \/ /\ err' = Err("MemoryError", "PyDict_New")
          /\ pc' = "md_release"
          /\ UNCHANGED <<heap, tempresult, i>>
    /\ UNCHANGED <<stdout, result, items, msg, nr_items, item, first, second>>
    /\ UNCHANGED common /\ UNCHANGED fzlocals

\* if (i == nr_items) break; item = PyTuple_GetItem(items, i)
MdGetItem ==
    /\ pc = "md_loop"
    /\ IF i = nr_items
       THEN /\ pc' = "md_after" /\ UNCHANGED <<item, err>>
       ELSE \/ /\ item' = PyTuple_GetItem(items, i)
               /\ pc' = "md_shape"
               /\ UNCHANGED err
            \/ /\ err' = Err("SystemError", "PyTuple_GetItem")
               /\ pc' = "md_after"
               /\ UNCHANGED item
    /\ UNCHANGED <<heap, stdout, result, tempresult, items, msg, nr_items, i, first, second>>
    /\ UNCHANGED common /\ UNCHANGED fzlocals

\* mutant: the sentinel is looked for before the shape of the item is checked
MdShape_SentinelFirst ==
    /\ pc = "md_shape"
    /\ IF PyTuple_Check(item) /\ \E j \in 1 .. PyTuple_Size(item) : item.elts[j] = ExceptMe_type
       THEN /\ err' = Err("ValueError", "ExceptMe object found")
            /\ pc' = "md_after"
            /\ UNCHANGED <<first, second>>
       ELSE IF ~PyTuple_Check(item) \/ PyTuple_Size(item) # 2
       THEN /\ err' = Err("TypeError", "expecting a 2-tuple")
            /\ pc' = "md_after"
            /\ UNCHANGED <<first, second>>
       ELSE /\ first' = PyTuple_GetItem(item, 0)
            /\ second' = PyTuple_GetItem(item, 1)
            /\ pc' = "md_sentinel"
            /\ UNCHANGED err
    /\ UNCHANGED <<heap, stdout, result, tempresult, items, msg, nr_items, i, item>>
    /\ UNCHANGED common /\ UNCHANGED fzlocals

\* if (not PyTuple_Check(item) or PyTuple_Size(item) != 2) ...
\* first = PyTuple_GetItem(item, 0); second = PyTuple_GetItem(item, 1)
MdShape ==
    /\ pc = "md_shape"
    /\ IF ~PyTuple_Check(item) \/ PyTuple_Size(item) # 2
       THEN /\ err' = Err("TypeError", "expecting a 2-tuple")
            /\ pc' = "md_after"
            /\ UNCHANGED <<first, second>>
       ELSE \/ /\ first' = PyTuple_GetItem(item, 0)
               /\ second' = PyTuple_GetItem(item, 1)
               /\ pc' = "md_sentinel"
               /\ UNCHANGED err
            \/ /\ err' = Err("SystemError", "PyTuple_GetItem")
               /\ pc' = "md_after"
               /\ UNCHANGED <<first, second>>
    /\ UNCHANGED <<heap, stdout, result, tempresult, items, msg, nr_items, i, item>>
    /\ UNCHANGED common /\ UNCHANGED fzlocals

\* mutant: only the first element of the pair is compared with the sentinel
MdSentinel_FirstOnly ==
    /\ pc = "md_sentinel"
    /\ IF first = ExceptMe_type
       THEN /\ err' = Err("ValueError", "ExceptMe object found")
            /\ pc' = "md_after"
       ELSE /\ pc' = "md_setitem"
            /\ UNCHANGED err
    /\ UNCHANGED <<heap, stdout, result, tempresult>>
    /\ UNCHANGED common /\ UNCHANGED mdlocals /\ UNCHANGED fzlocals

\* if (first == &ExceptMe_type or second == &ExceptMe_type) ...
MdSentinel ==
    /\ pc = "md_sentinel"
    /\ IF first = ExceptMe_type \/ second = ExceptMe_type
       THEN /\ err' = Err("ValueError", "ExceptMe object found")
            /\ pc' = "md_after"
       ELSE /\ pc' = "md_setitem"
            /\ UNCHANGED err
    /\ UNCHANGED <<heap, stdout, result, tempresult>>
    /\ UNCHANGED common /\ UNCHANGED mdlocals /\ UNCHANGED fzlocals

\* mutant: key and value exchanged in the call of PyDict_SetItem
MdSetItem_Swapped ==
    /\ pc = "md_setitem"
    /\ \/ /\ heap' = PyDict_SetItem(heap, tempresult, second, first)
          /\ i' = i + 1
          /\ pc' = "md_loop"
          /\ UNCHANGED err
       \/ /\ err' = Err("MemoryError", "PyDict_SetItem")
          /\ pc' = "md_after"
          /\ UNCHANGED <<heap, i>>
    /\ UNCHANGED <<stdout, result, tempresult, items, msg, nr_items, item, first, second>>
    /\ UNCHANGED common /\ UNCHANGED fzlocals

\* if (PyDict_SetItem(tempresult, first, second) < 0) break; ++i
MdSetItem ==
    /\ pc = "md_setitem"
    /\ \/ /\ heap' = PyDict_SetItem(heap, tempresult, first, second)
          /\ i' = i + 1
          /\ pc' = "md_loop"
          /\ UNCHANGED err
       \/ /\ err' = Err("MemoryError", "PyDict_SetItem")
          /\ pc' = "md_after"
          /\ UNCHANGED <<heap, i>>
    /\ UNCHANGED <<stdout, result, tempresult, items, msg, nr_items, item, first, second>>
    /\ UNCHANGED common /\ UNCHANGED fzlocals

\* mutant: the commit without the PyErr_Occurred() test of line 108
MdCommit_IgnoresError ==
    /\ pc = "md_after"
    /\ result' = tempresult
    /\ tempresult' = NULL
    /\ pc' = "md_release"
    /\ UNCHANGED <<err, heap, stdout>>
    /\ UNCHANGED common /\ UNCHANGED mdlocals /\ UNCHANGED fzlocals

\* if (PyErr_Occurred()) break; result = tempresult; tempresult = NULL
MdCommit ==
    /\ pc = "md_after"
    /\ IF err # NoError
       THEN UNCHANGED <<result, tempresult>>
       ELSE /\ result' = tempresult
            /\ tempresult' = NULL
    /\ pc' = "md_release"
    /\ UNCHANGED <<err, heap, stdout>>
    /\ UNCHANGED common /\ UNCHANGED mdlocals /\ UNCHANGED fzlocals

\* mutant: the borrowed reference first is released with tempresult
MdRelease_ReleasesBorrowed ==
    /\ pc = "md_release"
    /\ heap' = Py_XDECREF(Py_XDECREF(heap, tempresult), first)
    /\ pc' = "done"
    /\ UNCHANGED <<err, stdout, result, tempresult>>
    /\ UNCHANGED common /\ UNCHANGED mdlocals /\ UNCHANGED fzlocals

\* mutant: the return without the Py_XDECREF(tempresult) of line 115
MdRelease_Forgets ==
    /\ pc = "md_release"
    /\ pc' = "done"
    /\ UNCHANGED <<err, heap, stdout, result, tempresult>>
    /\ UNCHANGED common /\ UNCHANGED mdlocals /\ UNCHANGED fzlocals

\* Py_XDECREF(tempresult); return result
MdRelease ==
    /\ pc = "md_release"
    /\ heap' = Py_XDECREF(heap, tempresult)
    /\ pc' = "done"
    /\ UNCHANGED <<err, stdout, result, tempresult>>
    /\ UNCHANGED common /\ UNCHANGED mdlocals /\ UNCHANGED fzlocals

(* ------------------------------------------------------------- factorize *)
\* uint64_t arithmetic, W bits wide
Wrap(x) == x % Modulus
UnluckyNumber == 5

\* the interpreter calls discipline_factorize(self, args); allocation_step is
\* a constant of the function (10 in the code)
CallFactorize ==
    /\ pc = "idle"
    /\ \E a \in FactorizeArgs : args' = a
    /\ \E s \in AllocationSteps : allocation_step' = s
    /\ op' = "factorize"
    /\ pc' = "fz_parse"
    /\ UNCHANGED <<err, heap, stdout, result, tempresult>>
    /\ UNCHANGED mdlocals /\ UNCHANGED fzlocals

\* if (not PyArg_ParseTuple(args, "O", &nobj)) break
FzParse ==
    /\ pc = "fz_parse"
    /\ IF Len(args) = 1
       THEN /\ nobj' = args[1]
            /\ pc' = "fz_convert"
            /\ UNCHANGED err
       ELSE /\ err' = Err("TypeError", "PyArg_ParseTuple")
            /\ pc' = "fz_release"
            /\ UNCHANGED nobj
    /\ UNCHANGED <<heap, stdout, result, tempresult, n, nr_allocated, nr_used,
                   step, factor, power, factorelt, factorobj, powerobj>>
    /\ UNCHANGED common /\ UNCHANGED mdlocals

\* n = PyLong_AsUnsignedLongLong(nobj); if (PyErr_Occurred()) break
\* (on error the call returns (unsigned long long)-1)
FzConvert ==
    /\ pc = "fz_convert"
    /\ IF nobj.kind # "int"
       THEN /\ err' = Err("TypeError", "PyLong_AsUnsignedLongLong")
            /\ n' = Modulus - 1
            /\ pc' = "fz_release"
       ELSE IF nobj.v < 0 \/ nobj.v >= Modulus
       THEN /\ err' = Err("OverflowError", "PyLong_AsUnsignedLongLong")
            /\ n' = Modulus - 1
            /\ pc' = "fz_release"
       ELSE /\ n' = nobj.v
            /\ pc' = "fz_range"
            /\ UNCHANGED err
    /\ UNCHANGED <<heap, stdout, result, tempresult, nobj, nr_allocated, nr_used,
                   step, factor, power, factorelt, factorobj, powerobj>>
    /\ UNCHANGED common /\ UNCHANGED mdlocals

\* mutant: the range test written as n < 1
FzRange_OffByOne ==
    /\ pc = "fz_range"
    /\ IF n < 1
       THEN /\ err' = Err("ValueError", "cannot factorize one or zero")
            /\ pc' = "fz_release"
       ELSE /\ pc' = "fz_alloc"
            /\ UNCHANGED err
    /\ UNCHANGED <<heap, stdout, result, tempresult>>
    /\ UNCHANGED common /\ UNCHANGED mdlocals /\ UNCHANGED fzlocals

\* if (n < 2) { PyErr_SetString(PyExc_ValueError, ...); break; }
FzRange ==
    /\ pc = "fz_range"
    /\ IF n < 2
       THEN /\ err' = Err("ValueError", "cannot factorize one or zero")
            /\ pc' = "fz_release"
       ELSE /\ pc' = "fz_alloc"
            /\ UNCHANGED err
    /\ UNCHANGED <<heap, stdout, result, tempresult>>
    /\ UNCHANGED common /\ UNCHANGED mdlocals /\ UNCHANGED fzlocals

\* nr_allocated = allocation_step; tempresult = PyTuple_New(nr_allocated);
\* nr_used = 0; step = 1; factor = 2
FzAlloc ==
    /\ pc = "fz_alloc"
    /\ nr_allocated' = allocation_step
    /\ \/ /\ heap' = PyTuple_New(heap, allocation_step)
          /\ tempresult' = NewHandle(heap)
          /\ nr_used' = 0 /\ step' = 1 /\ factor' = 2
          /\ pc' = "fz_test"
          /\ UNCHANGED err
       \/ /\ err' = Err("MemoryError", "PyTuple_New")
          /\ pc' = "fz_release"
          /\ UNCHANGED <<heap, tempresult, nr_used, step, factor>>
    /\ UNCHANGED <<stdout, result, nobj, n, power, factorelt, factorobj, powerobj>>
    /\ UNCHANGED common /\ UNCHANGED mdlocals

\* mutant: the loop is left only when factor > n, so that the last prime is
\* reached and recorded like the others
FzTest_ExitsBeyondN ==
    /\ pc = "fz_test"
    /\ factor # 0
    /\ IF n % factor = 0
       THEN /\ pc' = "fz_newelt"
            /\ factorelt' = NULL /\ factorobj' = NULL /\ powerobj' = NULL
       ELSE /\ pc' = IF factor > n THEN "fz_after" ELSE "fz_advance"
            /\ UNCHANGED <<factorelt, factorobj, powerobj>>
    /\ UNCHANGED <<err, heap, stdout, result, tempresult, nobj, n, nr_allocated,
                   nr_used, step, factor, power>>
    /\ UNCHANGED common /\ UNCHANGED mdlocals

\* if (n % factor == 0) { factorelt = factorobj = powerobj = NULL; ... }
\* else if (factor * factor > n) break;
FzTest ==
    /\ pc = "fz_test"
    /\ factor # 0
    /\ IF n % factor = 0
       THEN /\ pc' = "fz_newelt"
            /\ factorelt' = NULL /\ factorobj' = NULL /\ powerobj' = NULL
       ELSE /\ pc' = IF Wrap(factor * factor) > n THEN "fz_after" ELSE "fz_advance"
            /\ UNCHANGED <<factorelt, factorobj, powerobj>>
    /\ UNCHANGED <<err, heap, stdout, result, tempresult, nobj, n, nr_allocated,
                   nr_used, step, factor, power>>
    /\ UNCHANGED common /\ UNCHANGED mdlocals

\* factorelt = PyTuple_New(2); if (factorelt == NULL) break
FzNewElt ==
    /\ pc = "fz_newelt"
    /\ \/ /\ heap' = PyTuple_New(heap, 2)
          /\ factorelt' = NewHandle(heap)
          /\ pc' = "fz_divide"
          /\ UNCHANGED err
       \/ /\ err' = Err("MemoryError", "PyTuple_New")
          /\ pc' = "fz_inner_release"
          /\ UNCHANGED <<heap, factorelt>>
    /\ UNCHANGED <<stdout, result, tempresult, nobj, n, nr_allocated, nr_used,
                   step, factor, power, factorobj, powerobj>>
    /\ UNCHANGED common /\ UNCHANGED mdlocals

\* mutant: power starts at 0 instead of 1
FzDivide_PowerZero ==
    /\ pc = "fz_divide"
    /\ power' = 0
    /\ n' = n \div factor
    /\ pc' = "fz_divloop"
    /\ UNCHANGED <<err, heap, stdout, result, tempresult, nobj, nr_allocated,
                   nr_used, step, factor, factorelt, factorobj, powerobj>>
    /\ UNCHANGED common /\ UNCHANGED mdlocals

\* uint64_t power = 1; n /= factor
FzDivide ==
    /\ pc = "fz_divide"
    /\ power' = 1
    /\ n' = n \div factor
    /\ pc' = "fz_divloop"
    /\ UNCHANGED <<err, heap, stdout, result, tempresult, nobj, nr_allocated,
                   nr_used, step, factor, factorelt, factorobj, powerobj>>
    /\ UNCHANGED common /\ UNCHANGED mdlocals

\* mutant: the body of the while loop without its "n /= factor"
FzDivLoop_NoDivide ==
    /\ pc = "fz_divloop"
    /\ IF n % factor = 0
       THEN /\ power' = Wrap(power + 1)
            /\ UNCHANGED <<pc, n>>
       ELSE /\ pc' = "fz_unlucky"
            /\ UNCHANGED <<power, n>>
    /\ UNCHANGED <<err, heap, stdout, result, tempresult, nobj, nr_allocated,
                   nr_used, step, factor, factorelt, factorobj, powerobj>>
    /\ UNCHANGED common /\ UNCHANGED mdlocals

\* while (n % factor == 0) { ++power; n /= factor; }
FzDivLoop ==
    /\ pc = "fz_divloop"
    /\ IF n % factor = 0
       THEN /\ power' = Wrap(power + 1)
            /\ n' = n \div factor
            /\ UNCHANGED pc
       ELSE /\ pc' = "fz_unlucky"
            /\ UNCHANGED <<power, n>>
    /\ UNCHANGED <<err, heap, stdout, result, tempresult, nobj, nr_allocated,
                   nr_used, step, factor, factorelt, factorobj, powerobj>>
    /\ UNCHANGED common /\ UNCHANGED mdlocals

\* mutant: the test of power == 5 (lines 179-183) left out
FzUnlucky_NoPowerCheck ==
    /\ pc = "fz_unlucky"
    /\ IF factor = UnluckyNumber
       THEN /\ err' = Err("ValueError", "Aiee! Unlucky factor 5 found!")
            /\ pc' = "fz_inner_release"
       ELSE /\ pc' = "fz_factorobj"
            /\ UNCHANGED err
    /\ UNCHANGED <<heap, stdout, result, tempresult>>
    /\ UNCHANGED common /\ UNCHANGED mdlocals /\ UNCHANGED fzlocals

\* if (factor == 5) {...; break;}  if (power == 5) {...; break;}
FzUnlucky ==
    /\ pc = "fz_unlucky"
    /\ IF factor = UnluckyNumber
       THEN /\ err' = Err("ValueError", "Aiee! Unlucky factor 5 found!")
            /\ pc' = "fz_inner_release"
       ELSE IF power = UnluckyNumber
       THEN /\ err' = Err("ValueError", "Aiee! Unlucky power 5 found!")
            /\ pc' = "fz_inner_release"
       ELSE /\ pc' = "fz_factorobj"
            /\ UNCHANGED err
    /\ UNCHANGED <<heap, stdout, result, tempresult>>
    /\ UNCHANGED common /\ UNCHANGED mdlocals /\ UNCHANGED fzlocals

\* factorobj = PyLong_FromUnsignedLongLong(factor); if (factorobj == NULL) break
FzFactorObj ==
    /\ pc = "fz_factorobj"
    /\ \/ /\ heap' = PyLong_FromUnsignedLongLong(heap, factor)
          /\ factorobj' = NewHandle(heap)
          /\ pc' = "fz_powerobj"
          /\ UNCHANGED err
       \/ /\ err' = Err("MemoryError", "PyLong_FromUnsignedLongLong")
          /\ pc' = "fz_inner_release"
          /\ UNCHANGED <<heap, factorobj>>
    /\ UNCHANGED <<stdout, result, tempresult, nobj, n, nr_allocated, nr_used,
                   step, factor, power, factorelt, powerobj>>
    /\ UNCHANGED common /\ UNCHANGED mdlocals

\* powerobj = PyLong_FromUnsignedLongLong(power); if (powerobj == NULL) break
FzPowerObj ==
    /\ pc = "fz_powerobj"
    /\ \/ /\ heap' = PyLong_FromUnsignedLongLong(heap, power)
          /\ powerobj' = NewHandle(heap)
          /\ pc' = "fz_fill"
          /\ UNCHANGED err
       \/ /\ err' = Err("MemoryError", "PyLong_FromUnsignedLongLong")
          /\ pc' = "fz_inner_release"
          /\ UNCHANGED <<heap, powerobj>>
    /\ UNCHANGED <<stdout, result, tempresult, nobj, n, nr_allocated, nr_used,
                   step, factor, power, factorelt, factorobj>>
    /\ UNCHANGED common /\ UNCHANGED mdlocals

\* mutant: the hand-over without the "factorobj = powerobj = NULL" of line 192
FzFillElt_KeepsObjs ==
    /\ pc = "fz_fill"
    /\ heap' = PyTuple_SET_ITEM(PyTuple_SET_ITEM(heap, factorelt, 0, factorobj),
                                factorelt, 1, powerobj)
    /\ pc' = "fz_grow"
    /\ UNCHANGED <<err, stdout, result, tempresult, nobj, n, nr_allocated, nr_used,
                   step, factor, power, factorelt, factorobj, powerobj>>
    /\ UNCHANGED common /\ UNCHANGED mdlocals

\* PyTuple_SET_ITEM(factorelt, 0, factorobj); PyTuple_SET_ITEM(factorelt, 1, powerobj);
\* factorobj = powerobj = NULL
FzFillElt ==
    /\ pc = "fz_fill"
    /\ heap' = PyTuple_SET_ITEM(PyTuple_SET_ITEM(heap, factorelt, 0, factorobj),
                                factorelt, 1, powerobj)
    /\ factorobj' = NULL /\ powerobj' = NULL
    /\ pc' = "fz_grow"
    /\ UNCHANGED <<err, stdout, result, tempresult, nobj, n, nr_allocated, nr_used,
                   step, factor, power, factorelt>>
    /\ UNCHANGED common /\ UNCHANGED mdlocals

\* mutant: the capacity is doubled instead of raised by allocation_step
FzGrow_Doubles ==
    /\ pc = "fz_grow"
    /\ IF nr_used = nr_allocated
       THEN /\ nr_allocated' = nr_allocated + nr_allocated
            /\ \/ /\ heap' = TupleResized(heap, tempresult, nr_allocated')
                  /\ pc' = "fz_store"
                  /\ UNCHANGED <<err, tempresult>>
               \/ /\ heap' = TupleResizeFailed(heap, tempresult)
                  /\ tempresult' = NULL
                  /\ err' = Err("MemoryError", "_PyTuple_Resize")
                  /\ pc' = "fz_inner_release"
       ELSE /\ pc' = "fz_store"
            /\ UNCHANGED <<err, heap, tempresult, nr_allocated>>
    /\ UNCHANGED <<stdout, result, nobj, n, nr_used, step, factor, power,
                   factorelt, factorobj, powerobj>>
    /\ UNCHANGED common /\ UNCHANGED mdlocals

\* if (nr_used == nr_allocated) { nr_allocated += allocation_step;
\*     if (_PyTuple_Resize(&tempresult, nr_allocated) != 0) break; }
FzGrow ==
    /\ pc = "fz_grow"
    /\ IF nr_used = nr_allocated
       THEN /\ nr_allocated' = nr_allocated + allocation_step
            /\ \/ /\ heap' = TupleResized(heap, tempresult, nr_allocated')
                  /\ pc' = "fz_store"
                  /\ UNCHANGED <<err, tempresult>>
               \/ /\ heap' = TupleResizeFailed(heap, tempresult)
                  /\ tempresult' = NULL
                  /\ err' = Err("MemoryError", "_PyTuple_Resize")
                  /\ pc' = "fz_inner_release"
       ELSE /\ pc' = "fz_store"
            /\ UNCHANGED <<err, heap, tempresult, nr_allocated>>
    /\ UNCHANGED <<stdout, result, nobj, n, nr_used, step, factor, power,
                   factorelt, factorobj, powerobj>>
    /\ UNCHANGED common /\ UNCHANGED mdlocals

\* mutant: the store without the "factorelt = NULL" of line 202
FzStore_KeepsFactorelt ==
    /\ pc = "fz_store"
    /\ nr_used < Len(heap[tempresult].slots)
    /\ heap' = PyTuple_SET_ITEM(heap, tempresult, nr_used, factorelt)
    /\ nr_used' = nr_used + 1
    /\ pc' = "fz_inner_release"
    /\ UNCHANGED <<err, stdout, result, tempresult, nobj, n, nr_allocated,
                   step, factor, power, factorelt, factorobj, powerobj>>
    /\ UNCHANGED common /\ UNCHANGED mdlocals

\* PyTuple_SET_ITEM(tempresult, nr_used, factorelt); factorelt = NULL; ++nr_used
FzStore ==
    /\ pc = "fz_store"
    /\ nr_used < Len(heap[tempresult].slots)
    /\ heap' = PyTuple_SET_ITEM(heap, tempresult, nr_used, factorelt)
    /\ factorelt' = NULL
    /\ nr_used' = nr_used + 1
    /\ pc' = "fz_inner_release"
    /\ UNCHANGED <<err, stdout, result, tempresult, nobj, n, nr_allocated,
                   step, factor, power, factorobj, powerobj>>
    /\ UNCHANGED common /\ UNCHANGED mdlocals

\* mutant: the inner release without the "if (PyErr_Occurred()) break" of line 209
FzInnerRelease_NoErrorCheck ==
    /\ pc = "fz_inner_release"
    /\ heap' = Py_XDECREF(Py_XDECREF(Py_XDECREF(heap, factorobj), powerobj), factorelt)
    /\ pc' = "fz_advance"
    /\ UNCHANGED <<err, stdout, result, tempresult>>
    /\ UNCHANGED common /\ UNCHANGED mdlocals /\ UNCHANGED fzlocals

\* Py_XDECREF(factorobj); Py_XDECREF(powerobj); Py_XDECREF(factorelt);
\* if (PyErr_Occurred()) break
FzInnerRelease ==
    /\ pc = "fz_inner_release"
    /\ heap' = Py_XDECREF(Py_XDECREF(Py_XDECREF(heap, factorobj), powerobj), factorelt)
    /\ pc' = IF err # NoError THEN "fz_after" ELSE "fz_advance"
    /\ UNCHANGED <<err, stdout, result, tempresult>>
    /\ UNCHANGED common /\ UNCHANGED mdlocals /\ UNCHANGED fzlocals

\* factor += step; step = 2
FzAdvance ==
    /\ pc = "fz_advance"
    /\ factor' = Wrap(factor + step)
    /\ step' = 2
    /\ pc' = "fz_test"
    /\ UNCHANGED <<err, heap, stdout, result, tempresult, nobj, n, nr_allocated,
                   nr_used, power, factorelt, factorobj, powerobj>>
    /\ UNCHANGED common /\ UNCHANGED mdlocals

\* mutant: the result is trimmed to one slot less than was used
FzTrim_OffByOne ==
    /\ pc = "fz_after"
    /\ IF err # NoError
       THEN /\ pc' = "fz_release"
            /\ UNCHANGED <<err, heap, tempresult>>
       ELSE \/ /\ heap' = TupleResized(heap, tempresult, IF nr_used > 0 THEN nr_used - 1 ELSE 0)
               /\ pc' = "fz_commit"
               /\ UNCHANGED <<err, tempresult>>
            \/ /\ Len(heap[tempresult].slots) # nr_used
               /\ heap' = TupleResizeFailed(heap, tempresult)
               /\ tempresult' = NULL
               /\ err' = Err("MemoryError", "_PyTuple_Resize")
               /\ pc' = "fz_release"
    /\ UNCHANGED <<stdout, result>>
    /\ UNCHANGED common /\ UNCHANGED mdlocals /\ UNCHANGED fzlocals

\* if (PyErr_Occurred()) break; if (_PyTuple_Resize(&tempresult, nr_used) != 0) break
FzTrim ==
    /\ pc = "fz_after"
    /\ IF err # NoError
       THEN /\ pc' = "fz_release"
            /\ UNCHANGED <<err, heap, tempresult>>
       ELSE \/ /\ heap' = TupleResized(heap, tempresult, nr_used)
               /\ pc' = "fz_commit"
               /\ UNCHANGED <<err, tempresult>>
            \/ /\ Len(heap[tempresult].slots) # nr_used
               /\ heap' = TupleResizeFailed(heap, tempresult)
               /\ tempresult' = NULL
               /\ err' = Err("MemoryError", "_PyTuple_Resize")
               /\ pc' = "fz_release"
    /\ UNCHANGED <<stdout, result>>
    /\ UNCHANGED common /\ UNCHANGED mdlocals /\ UNCHANGED fzlocals

\* mutant: the commit without the "tempresult = NULL" of line 226
FzCommit_KeepsTempresult ==
    /\ pc = "fz_commit"
    /\ result' = tempresult
    /\ pc' = "fz_release"
    /\ UNCHANGED <<err, heap, stdout, tempresult>>
    /\ UNCHANGED common /\ UNCHANGED mdlocals /\ UNCHANGED fzlocals

\* result = tempresult; tempresult = NULL
FzCommit ==
    /\ pc = "fz_commit"
    /\ result' = tempresult
    /\ tempresult' = NULL
    /\ pc' = "fz_release"
    /\ UNCHANGED <<err, heap, stdout>>
    /\ UNCHANGED common /\ UNCHANGED mdlocals /\ UNCHANGED fzlocals

\* Py_XDECREF(tempresult); return result
FzRelease ==
    /\ pc = "fz_release"
    /\ heap' = Py_XDECREF(heap, tempresult)
    /\ pc' = "done"
    /\ UNCHANGED <<err, stdout, result, tempresult>>
    /\ UNCHANGED common /\ UNCHANGED mdlocals /\ UNCHANGED fzlocals

Next ==
    \/ CallMakedict \/ MdParse \/ MdPrint \/ MdCheckTuple \/ MdNewDict
    \/ MdGetItem \/ MdShape \/ MdSentinel \/ MdSetItem \/ MdCommit \/ MdRelease
    \/ CallFactorize \/ FzParse \/ FzConvert \/ FzRange \/ FzAlloc \/ FzTest
    \/ FzNewElt \/ FzDivide \/ FzDivLoop \/ FzUnlucky \/ FzFactorObj \/ FzPowerObj
    \/ FzFillElt \/ FzGrow \/ FzStore \/ FzInnerRelease \/ FzAdvance \/ FzTrim
    \/ FzCommit \/ FzRelease

Spec == Init /\ [][Next]_vars

(* ------------------------------------------------------ shared predicates *)
Done == pc = "done"
Failed == err # NoError
Created == (Len(InitialHeap) + 1) .. Len(heap)
Range(s) == { s[j] : j \in 1 .. Len(s) }
Occurrences(s, h) == Cardinality({ j \in 1 .. Len(s) : s[j] = h })
\* the handles reachable from h through the slots of containers
Children(S) == UNION { Range(heap[h].slots) \ {NULL} : h \in S }
Reach(h) ==
    IF h = NULL THEN {}
    ELSE LET a == {h} \cup Children({h})
             b == a \cup Children(a)
         IN  b \cup Children(b)
\* makedict's view of its input
MdParsed == op = "makedict" /\ ParsesAsOs(args)
IsPair(e) == PyTuple_Check(e) /\ PyTuple_Size(e) = 2
HasSentinel(e) == IsPair(e) /\ (e.elts[1] = ExceptMe_type \/ e.elts[2] = ExceptMe_type)
GoodPair(e) == IsPair(e) /\ ~HasSentinel(e)
\* factorize's view of its input
FzConverted ==
    /\ op = "factorize" /\ Len(args) = 1
    /\ args[1].kind = "int" /\ args[1].v >= 0 /\ args[1].v < Modulus
InputN == args[1].v
RangeError == Err("ValueError", "cannot factorize one or zero")
UnluckyFactor == Err("ValueError", "Aiee! Unlucky factor 5 found!")

(* ---------------------------------------------------------------- claims *)
\* no object is released after its count reached zero
NoDoubleRelease == \A h \in 1 .. Len(heap) : heap[h].rc >= 0
\* every object the call created is dead and the argument objects have the
\* counts they had before the call
AllReleased ==
    /\ \A h \in Created : heap[h].rc = 0
    /\ \A h \in 1 .. Len(InitialHeap) : heap[h].rc = 1

\* C1: factorize releases, exactly once, every handle it acquired when it
\* fails: no reference count ever goes below zero, and when a failing call has
\* returned every object it created has count 0 and the argument objects
\* have the counts they had before the call.
C1_FactorizeReleasesOnFailure ==
    op = "factorize" =>
        /\ NoDoubleRelease
        /\ (Done /\ Failed) => AllReleased
\* a call that failed in the middle of growth, with records stored and one
\* under construction
C1_Witness ==
    /\ op = "factorize" /\ Done
    /\ err = Err("MemoryError", "_PyTuple_Resize")
    /\ factorelt # NULL /\ nr_used >= 1
    /\ tempresult = NULL

\* C2: makedict releases, exactly once, the mapping under construction and
\* the references of its entries when it fails.
C2_MakedictReleasesOnFailure ==
    op = "makedict" =>
        /\ NoDoubleRelease
        /\ (Done /\ Failed) => AllReleased
\* a call that failed after an entry was inserted
C2_Witness ==
    /\ op = "makedict" /\ Done /\ Failed
    /\ tempresult # NULL /\ Len(heap[tempresult].slots) >= 2

\* C3: on success nothing is released and nothing leaks: at the final release
\* step and after it every owning local is NULL, every object the call
\* created is reachable from the result and still has its one reference, and
\* an argument object has one more reference per slot of the result that
\* holds it.
C3_NoLeakNoReleaseOnSuccess ==
    (pc \in {"md_release", "fz_release", "done"} /\ ~Failed) =>
        /\ result # NULL
        /\ tempresult = NULL /\ factorelt = NULL /\ factorobj = NULL /\ powerobj = NULL
        /\ \A h \in Created : h \in Reach(result) /\ heap[h].rc = 1
        /\ \A h \in 1 .. Len(InitialHeap) :
               heap[h].rc = 1 + Occurrences(heap[result].slots, h)
\* a successful factorize that stored two records
C3_Witness ==
    /\ op = "factorize" /\ Done /\ ~Failed
    /\ nr_used = 2 /\ Len(heap[result].slots) = 2

\* C4: the function returns NULL exactly when an error is pending.
C4_NullIffError == Done => ((result = NULL) <=> Failed)
\* a makedict call that returned NULL because of the sentinel
C4_Witness ==
    /\ op = "makedict" /\ Done /\ result = NULL
    /\ err = Err("ValueError", "ExceptMe object found")

\* the elements of the outer tuple passed to makedict
InputElts == args[1].elts
HasBad == \E k \in 1 .. Len(InputElts) : ~GoodPair(InputElts[k])
FirstBad == CHOOSE k \in 1 .. Len(InputElts) :
                ~GoodPair(InputElts[k]) /\ \A j \in 1 .. k - 1 : GoodPair(InputElts[j])

\* C5: makedict validates the elements one at a time in index order, the shape
\* of an element before its sentinel check: while element i is examined every
\* element before it has passed both checks, the sentinel check and the
\* insertion see only 2-tuples, and (no runtime call failing) the call ends
\* with the error of the first violating element, or with "expecting a tuple"
\* and no element examined when the first argument is no tuple.
C5_ValidationOrder ==
    MdParsed =>
        /\ pc \in {"md_shape", "md_sentinel", "md_setitem"} =>
               /\ i < nr_items /\ item = InputElts[i + 1]
               /\ \A j \in 1 .. i : GoodPair(InputElts[j])
        /\ pc \in {"md_sentinel", "md_setitem"} => IsPair(item)
        /\ pc = "md_setitem" => GoodPair(item)
        /\ (Done /\ err \notin HostErrors) =>
               IF ~PyTuple_Check(args[1])
               THEN /\ err = Err("TypeError", "expecting a tuple")
                    /\ item = Unset /\ i = 0 /\ tempresult = NULL
               ELSE IF HasBad
               THEN /\ i = FirstBad - 1 /\ item = InputElts[FirstBad]
                    /\ err = IF IsPair(InputElts[FirstBad])
                             THEN Err("ValueError", "ExceptMe object found")
                             ELSE Err("TypeError", "expecting a 2-tuple")
               ELSE err = NoError
\* a sentinel pair followed by a mis-shaped element fails with ValueError
C5_Witness ==
    /\ MdParsed /\ Done /\ PyTuple_Check(args[1]) /\ Len(InputElts) = 2
    /\ HasSentinel(InputElts[1]) /\ ~IsPair(InputElts[2])
    /\ err = Err("ValueError", "ExceptMe object found")

\* C6: a tuple in which some pair holds the sentinel as first or second
\* element, after valid sentinel-free pairs only, makes makedict fail with
\* ValueError and return no mapping (no runtime call failing).
C6_SentinelRejected ==
    ( /\ MdParsed /\ Done /\ PyTuple_Check(args[1]) /\ err \notin HostErrors
      /\ \E k \in 1 .. Len(InputElts) :
             HasSentinel(InputElts[k]) /\ \A j \in 1 .. k - 1 : GoodPair(InputElts[j]) )
    => (err = Err("ValueError", "ExceptMe object found") /\ result = NULL)
\* the sentinel as the second element of the second pair
C6_Witness ==
    /\ MdParsed /\ Done /\ PyTuple_Check(args[1]) /\ Len(InputElts) = 2
    /\ GoodPair(InputElts[1])
    /\ IsPair(InputElts[2]) /\ InputElts[2].elts = <<KeyA, ExceptMe_type>>
    /\ err = Err("ValueError", "ExceptMe object found") /\ result = NULL

\* the last pair of the input whose first element is key
LastWith(key) ==
    CHOOSE k \in 1 .. Len(InputElts) :
        /\ InputElts[k].elts[1] = key
        /\ \A j \in k + 1 .. Len(InputElts) : InputElts[j].elts[1] # key
\* C7: for a tuple of valid sentinel-free pairs (no runtime call failing)
\* makedict succeeds, the keys of the returned mapping are exactly the first
\* elements of the pairs, each once, and each key maps to the second element
\* of the last pair with that key.
C7_MappingCorrect ==
    ( /\ MdParsed /\ Done /\ PyTuple_Check(args[1]) /\ err \notin HostErrors
      /\ \A k \in 1 .. Len(InputElts) : GoodPair(InputElts[k]) )
    => /\ err = NoError /\ result # NULL
       /\ heap[result].kind = "dict"
       /\ LET d == heap[result].slots
              keypos == { j \in 1 .. Len(d) : j % 2 = 1 }
              firsts == { InputElts[k].elts[1] : k \in 1 .. Len(InputElts) }
          IN  /\ { d[j] : j \in keypos } = firsts
              /\ Cardinality(keypos) = Cardinality(firsts)
              /\ \A j \in keypos : d[j + 1] = InputElts[LastWith(d[j])].elts[2]
\* two pairs with the same key: the second value wins
C7_Witness ==
    /\ MdParsed /\ Done /\ ~Failed /\ Len(InputElts) = 2
    /\ InputElts[1].elts = <<KeyA, KeyA>> /\ InputElts[2].elts = <<KeyA, KeyB>>
    /\ heap[result].slots = <<KeyA, KeyB>>

\* C8 as stated: every call of makedict emits the diagnostic line exactly once
C8_EmittedInEveryCall == (op = "makedict" /\ Done) => Len(stdout) = 1
\* C8 as amended: a call whose arguments parse emits the line with the caller's
\* message exactly once, after the parse and before the tuple check, the
\* allocation of the mapping and the first element, also when validation then
\* fails; a call whose arguments do not parse emits nothing.
C8_EmittedOnceAfterParse ==
    op = "makedict" =>
        /\ stdout = IF pc \in {"md_parse", "md_print"} \/ ~ParsesAsOs(args)
                    THEN <<>> ELSE <<args[2]>>
        /\ pc \in {"md_parse", "md_print"} =>
               (tempresult = NULL /\ item = Unset /\ err \in {NoError} /\ Len(heap) = Len(InitialHeap))
\* a call whose validation failed has emitted the line
C8_Witness ==
    /\ op = "makedict" /\ Done
    /\ err = Err("TypeError", "expecting a 2-tuple")
    /\ stdout = <<args[2]>>

\* C9: factorize(0) and factorize(1) fail with the range error, return no
\* result and create no object; the range error is raised for no other input.
C9_RangeCheck ==
    op = "factorize" =>
        /\ err = RangeError => (FzConverted /\ InputN < 2)
        /\ (Done /\ FzConverted /\ InputN < 2) =>
               (err = RangeError /\ result = NULL /\ Created = {})
\* factorize(1) has failed with the range error
C9_Witness ==
    /\ Done /\ FzConverted /\ InputN = 1 /\ err = RangeError /\ result = NULL

\* C10 as stated: every n >= 2 that has 5 as a prime factor makes factorize
\* fail with the "unlucky factor 5" ValueError (no runtime call failing).
C10_UnluckyFactorRaised ==
    ( /\ Done /\ FzConverted /\ InputN >= 2 /\ InputN % UnluckyNumber = 0
      /\ err \notin HostErrors )
    => (err = UnluckyFactor /\ result = NULL)
(* ------------------------------------------------- arithmetic of the claims *)
IsPrime(p) == p >= 2 /\ \A d \in 2 .. p - 1 : p % d # 0
\* the number of times p occurs as a factor of m (m >= 1, p >= 2)
RECURSIVE Multiplicity(_, _)
Multiplicity(p, m) == IF m % p = 0 THEN 1 + Multiplicity(p, m \div p) ELSE 0
UnluckyPower == Err("ValueError", "Aiee! Unlucky power 5 found!")

\* C11: every n >= 2 in which some prime occurs exactly 5 times makes
\* factorize fail with a ValueError and return no result (no runtime call
\* failing).
C11_UnluckyPowerRaised ==
    ( /\ Done /\ FzConverted /\ InputN >= 2 /\ err \notin HostErrors
      /\ \E p \in 2 .. InputN : Multiplicity(p, InputN) = UnluckyNumber /\ IsPrime(p) )
    => (err.type = "ValueError" /\ result = NULL)
\* factorize(3^5 * 2) has stored the record of 2 and failed on the power of 3
C11_Witness ==
    /\ Done /\ FzConverted /\ InputN = 486
    /\ err = UnluckyPower /\ result = NULL /\ factor = 3 /\ power = 5

\* the pairs (i, r) held by the tuple t, in the order of its slots
PairAt(t, j) ==
    LET rec == heap[heap[t].slots[j]]
    IN  << heap[rec.slots[1]].val, heap[rec.slots[2]].val >>
PairsOf(t) == [j \in 1 .. Len(heap[t].slots) |-> PairAt(t, j)]
FzSucceeded == op = "factorize" /\ Done /\ ~Failed

\* C12: every pair (i, r) of a successful factorize(n) has i prime, r >= 1 and
\* r the exact number of times i divides n (i^r divides n, i^(r+1) does not);
\* the pairs are in strictly increasing order of i; factorize(12) returns
\* ((2,2),(3,1)) and factorize(2) returns ((2,1)).
C12_ResultSound ==
    FzSucceeded =>
        LET ps == PairsOf(result)
        IN  /\ \A j \in 1 .. Len(ps) :
                   /\ IsPrime(ps[j][1]) /\ ps[j][2] >= 1
                   /\ InputN % (ps[j][1] ^ ps[j][2]) = 0
                   /\ InputN % (ps[j][1] ^ (ps[j][2] + 1)) # 0
            /\ \A j \in 1 .. Len(ps) - 1 : ps[j][1] < ps[j + 1][1]
            /\ InputN = 12 => ps = << <<2, 2>>, <<3, 1>> >>
            /\ InputN = 2 => ps = << <<2, 1>> >>
\* factorize(12) has returned ((2,2),(3,1))
C12_Witness ==
    /\ FzSucceeded /\ InputN = 12
    /\ PairsOf(result) = << <<2, 2>>, <<3, 1>> >>

\* the product of i^r over a sequence of pairs
RECURSIVE ProductOf(_)
ProductOf(ps) == IF ps = <<>> THEN 1 ELSE (Head(ps)[1] ^ Head(ps)[2]) * ProductOf(Tail(ps))
FactorsOf(ps) == { ps[j][1] : j \in 1 .. Len(ps) }

\* C13 as stated: the pairs of a successful factorize(n) are the prime
\* factorization of n: every prime dividing n is a returned i, and the product
\* of i^r is n.
C13_ResultComplete ==
    FzSucceeded =>
        LET ps == PairsOf(result)
        IN  /\ ProductOf(ps) = InputN
            /\ \A p \in 2 .. InputN : (InputN % p = 0 /\ IsPrime(p)) => p \in FactorsOf(ps)

\* the result tuple of factorize, while it is under construction or returned
ResultTuple == IF tempresult # NULL THEN tempresult ELSE result
\* the factor records created so far: every tuple created after the result tuple
RecordsCreated ==
    { h \in Created : heap[h].kind = "tuple" /\ h # Len(InitialHeap) + 1 }
\* slots 1..nr_used of the tuple t hold live, filled records in the order of
\* their creation, the other slots are empty, and with the record under
\* construction they are all the records that were created
RecordsKept(t) ==
    LET s == heap[t].slots
    IN  /\ nr_used <= Len(s)
        /\ \A j \in 1 .. Len(s) : (s[j] # NULL) <=> (j <= nr_used)
        /\ \A j \in 1 .. nr_used :
               /\ heap[s[j]].rc = 1 /\ heap[s[j]].kind = "tuple"
               /\ \A k \in 1 .. 2 : heap[s[j]].slots[k] # NULL /\ heap[heap[s[j]].slots[k]].rc = 1
        /\ \A j \in 1 .. nr_used - 1 : s[j] < s[j + 1]
        /\ RecordsCreated = { s[j] : j \in 1 .. nr_used } \cup ({factorelt} \ {NULL})
\* a successful growth step leaves every stored record in its slot, unchanged
GrowthKeepsRecords ==
    (pc = "fz_grow" /\ pc' = "fz_store") =>
        /\ tempresult' = tempresult
        /\ \A j \in 1 .. nr_used :
               /\ heap'[tempresult].slots[j] = heap[tempresult].slots[j]
               /\ heap'[heap[tempresult].slots[j]] = heap[heap[tempresult].slots[j]]
        /\ \A h \in Created \ {tempresult} : heap'[h] = heap[h]

\* C14: growing the result tuple loses, duplicates and reorders no stored
\* record (while no step has failed the tuple holds exactly the records
\* created, in creation order, and a growth step changes none of them), and
\* the returned tuple has exactly nr_used slots, all of them filled.
C14_GrowthPreservesRecords ==
    /\ [](( /\ op = "factorize" /\ ~Failed /\ ResultTuple # NULL ) =>
            /\ RecordsKept(ResultTuple)
            /\ Done => Len(heap[result].slots) = nr_used)
    /\ [][GrowthKeepsRecords]_vars
\* a successful call with allocation step 1 that grew the tuple twice
C14_Witness ==
    /\ FzSucceeded /\ allocation_step = 1 /\ nr_used = 3
    /\ nr_allocated = 3 /\ Len(heap[result].slots) = 3

\* the owners of handle h: the owning variables that hold it and the slots of
\* live containers that hold it
OwningVariables == <<result, tempresult, factorelt, factorobj, powerobj>>
LiveContainers == { c \in Created : heap[c].rc > 0 }
RECURSIVE SumOver(_, _)
SumOver(S, h) ==
    IF S = {} THEN 0
    ELSE LET c == CHOOSE x \in S : TRUE
         IN  Occurrences(heap[c].slots, h) + SumOver(S \ {c}, h)
Owners(h) == Occurrences(OwningVariables, h) + SumOver(LiveContainers, h)
StoredIn(h, c) == c # NULL /\ h \in Range(heap[c].slots)

Borrowed == 1 .. Len(InitialHeap)
\* the variables the code passes to Py_XDECREF
ReleasedVariables == {tempresult, factorelt, factorobj, powerobj}

\* C16: borrowed references are never released: no variable that the code
\* passes to Py_XDECREF ever holds a borrowed object, the count of a borrowed
\* object is always the caller's reference plus the references held by the
\* mapping under construction, and after the call it differs from before
\* only by the references of the returned mapping.
C16_BorrowedNeverReleased ==
    /\ ReleasedVariables \cap Borrowed = {}
    /\ \A h \in Borrowed : heap[h].rc = 1 + SumOver(LiveContainers, h)
    /\ Done => \A h \in Borrowed :
           heap[h].rc = 1 + (IF result = NULL THEN 0 ELSE Occurrences(heap[result].slots, h))
\* a returned mapping that holds two references to the same argument object
C16_Witness ==
    /\ op = "makedict" /\ Done /\ ~Failed
    /\ heap[KeyA].rc = 3 /\ heap[result].slots = <<KeyA, KeyA>>

\* the positions of factorize at which tempresult is the growable tuple
\* (allocated, not yet trimmed)
BuildingPcs ==
    { "fz_test", "fz_newelt", "fz_divide", "fz_divloop", "fz_unlucky", "fz_factorobj",
      "fz_powerobj", "fz_fill", "fz_grow", "fz_store", "fz_inner_release",
      "fz_advance", "fz_after" }
TupleAllocated == op = "factorize" /\ Created # {}
CapacityInvariant ==
    /\ TupleAllocated => (0 <= nr_used /\ nr_used <= nr_allocated)
    /\ (op = "factorize" /\ pc \in BuildingPcs /\ tempresult # NULL) =>
           Len(heap[tempresult].slots) = nr_allocated
    /\ pc = "fz_store" => nr_used < Len(heap[tempresult].slots)
\* nr_allocated is set to the step at the allocation and changes afterwards
\* only by one step, in the growth step, when the tuple is full
GrowthPolicy ==
    /\ (pc = "fz_alloc" /\ pc' = "fz_test") =>
           (nr_allocated' = allocation_step /\ Len(heap'[tempresult'].slots) = allocation_step)
    /\ (pc # "fz_alloc" /\ nr_allocated' # nr_allocated) =>
           /\ pc = "fz_grow" /\ nr_used = nr_allocated
           /\ nr_allocated' = nr_allocated + allocation_step
    /\ (pc = "fz_grow" /\ nr_used < nr_allocated) => nr_allocated' = nr_allocated

\* C17: once the result tuple is allocated 0 <= nr_used <= nr_allocated; the
\* capacity starts at the allocation step and changes only by exactly one
\* step, only when nr_used = nr_allocated and a record is about to be stored;
\* every record is stored at an index below the capacity of the tuple.
C17_CapacityAndGrowth == []CapacityInvariant /\ [][GrowthPolicy]_vars
\* a record is about to be stored after a growth with allocation step 2
C17_Witness ==
    /\ pc = "fz_store" /\ allocation_step = 2
    /\ nr_used = 2 /\ nr_allocated = 4 /\ Len(heap[tempresult].slots) = 4

FairSpec == Spec /\ WF_vars(Next)

\* every turn of the divide-out loop makes n smaller and every turn of the
\* trial-division loop makes factor larger (it does not wrap around)
LoopsProgress ==
    /\ (pc = "fz_divloop" /\ pc' = "fz_divloop") => (n' < n /\ n' >= 1)
    /\ (pc = "fz_advance" /\ pc' = "fz_test") => factor' > factor

\* C19: factorize terminates for every representable input: the candidate
\* factor, computed modulo 2^W, is 2 or an odd number above 2 (it never wraps
\* around to 0 or 1), every turn of either loop makes progress, and every
\* call of factorize reaches its return with a result or with an error
\* pending.
C19_FactorizeTerminates ==
    /\ []((op = "factorize" /\ pc \in BuildingPcs) =>
            (factor >= 2 /\ factor < Modulus /\ (factor = 2 \/ factor % 2 = 1)))
    /\ [][LoopsProgress]_vars
    /\ (op = "factorize") ~> (Done /\ (result # NULL \/ Failed))
\* the loop goes on past the square root of n because factor * factor has
\* wrapped around
C19_Witness ==
    /\ pc = "fz_advance" /\ FzConverted
    /\ factor * factor >= Modulus /\ Wrap(factor * factor) <= n
    /\ n % factor # 0

\* the positions a failed call can move to: the tests of the error indicator
\* that leave the loops, the final release and the return
UnwindPcs == { "md_release", "fz_after", "fz_release", "done" }
\* a step taken with an error pending keeps the error, creates no object,
\* examines no further element or candidate factor, stores nothing and writes
\* nothing: it only drops references and moves towards the return
UnwindStep ==
    Failed =>
        /\ err' = err
        /\ pc' \in UnwindPcs
        /\ Len(heap') = Len(heap)
        /\ \A h \in 1 .. Len(heap) :
               heap'[h].slots = heap[h].slots /\ heap'[h].rc <= heap[h].rc
        /\ i' = i /\ item' = item /\ first' = first /\ second' = second
        /\ factor' = factor /\ n' = n /\ power' = power
        /\ nr_used' = nr_used /\ nr_allocated' = nr_allocated
        /\ result = NULL /\ result' = NULL
        /\ stdout' = stdout

\* C20: fail fast: once a step has failed, every later step of makedict and
\* factorize is a release or a move to the return; no object is created, no
\* element or candidate factor is processed, no entry or record is stored,
\* and the error stays the one set by the first failing step.
C20_FailFast == [][UnwindStep]_vars
\* factorize(30) has stored the records of 2 and 3, failed on factor 5 and
\* returned
C20_Witness ==
    /\ Done /\ FzConverted /\ InputN = 30 /\ err = UnluckyFactor
    /\ nr_used = 2 /\ factor = 5 /\ n = 1

====
